---- MODULE Spec2Model ----
(***************************************************************************)
(* Model of flashing_lights/GenerateHeatMap.py: GetFreqCounts (per-frame   *)
(* event detection) and GetFreqArray (accumulation over an image stack     *)
(* with optional outlier clipping).                                        *)
(*                                                                         *)
(* Arrays are sequences of rows, indexed from 1 (numpy indexes from 0).    *)
(* np.where results are kept as the code keeps them: two parallel index    *)
(* lists row and col, in row-major order.                                  *)
(*                                                                         *)
(* freq_array is a float64 array in the code.  Its cells are counts until  *)
(* clipping writes upper_lim = q3 + 1.5*iqr into it; with the 25th/75th    *)
(* linear-interpolation percentiles every such value is a multiple of 1/8. *)
(* freq_array, q1, q3, iqr and upper_lim are therefore held in fixed point *)
(* with Unit = 8 (the float value is cell / Unit, and is exact).           *)
(***************************************************************************)
EXTENDS Integers, Sequences, FiniteSets, TLC

\* ---------------------------------------------------------------- bounds
MaxFrames == 2

Pixels == {0, 2}
Thresholds == {2, 3}
Shapes == {<<1, 1>>, <<1, 2>>, <<2, 1>>, <<2, 2>>}

\* ------------------------------------------------------ program constants
Unit == 8

VARIABLES
    img,            \* the decoded stack (list of 2-D frames), cv2.imreadmulti
    threshold,      \* argument
    scale_percent,  \* argument
    outliers,       \* argument
    pc,             \* position in GetFreqArray
    dim,            \* (width, height)
    frame,          \* number of frames processed by the loop at line 74
    frame_resized,  \* local of the loop body
    freq,           \* local of the loop body: GetFreqCounts' return value
    freq_array,     \* the accumulation array (fixed point, see above)
    upper_lim,      \* <<>> until computed, then <<upper_lim>> (fixed point)
    status,         \* "running", "returned" or the exception raised
    traceback       \* where the exception was raised

vars == <<img, threshold, scale_percent, outliers, pc, dim, frame,
          frame_resized, freq, freq_array, upper_lim, status, traceback>>

\* ------------------------------------------------------------ numpy helpers
Height(m) == Len(m)
Width(m) == IF Len(m) = 0 THEN 0 ELSE Len(m[1])
Shape(m) == <<Height(m), Width(m)>>

Zeros(h, w) == [r \in 1..h |-> [c \in 1..w |-> 0]]

InBounds(m, r, c) == r \in 1..Height(m) /\ c \in 1..Width(m)

Coords(m) ==
    [k \in 1..(Height(m) * Width(m)) |->
        <<((k - 1) \div Width(m)) + 1, ((k - 1) % Width(m)) + 1>>]

\* the comparison the wrong way round
EventFlipped(pixel, thr) == pixel <= thr

\* frame >= threshold
Event(pixel, thr) == pixel >= thr

\* np.where(frame >= threshold): coordinates in row-major order
WhereEvent(m, thr) == SelectSeq(Coords(m), LAMBDA p : Event(m[p[1]][p[2]], thr))

\* np.where(freq == 1)
WhereOne(m) == SelectSeq(Coords(m), LAMBDA p : m[p[1]][p[2]] = 1)

\* ------------------------------------------------------------ GetFreqCounts
\* Returns [err, grid]: err is TRUE when an index is out of bounds
\* (IndexError), grid is the value of `frequency` at the return.
GetFreqCounts(fr, thr) ==
    LET where == WhereEvent(fr, thr)
        n == Len(where)
        row(i) == where[i][1]
        col(i) == where[i][2]
        RECURSIVE Loop(_, _)
        Loop(k, frequency) ==
            IF k = n * n THEN [err |-> FALSE, grid |-> frequency]
            ELSE LET i == (k \div n) + 1
                     j == (k % n) + 1
                 IN  IF ~InBounds(frequency, row(i), col(j))
                        \/ ~InBounds(frequency, row(i), col(i))
                     THEN [err |-> TRUE, grid |-> <<>>]
                     ELSE Loop(k + 1,
                               [[frequency EXCEPT ![row(i)][col(j)] = fr[row(i)][col(j)]]
                                   EXCEPT ![row(i)][col(i)] = 1])
    \* line 32: np.where returns a tuple of two index arrays, so its len is 2
    IN  IF Len(<<where, where>>) > 0
        THEN Loop(0, Zeros(Len(fr), Len(fr)))
        ELSE [err |-> FALSE, grid |-> Zeros(Len(fr), Len(fr))]

\* ------------------------------------------------------------ cv2.resize
\* int(img[0].shape[k] * scale_percent / 100)
ScaleDim(n, scale) == (n * scale) \div 100

\* Candidates for one resampled pixel.  With equal weights over the block
\* (area averaging), the mean rounded to the nearest integer; a tie may round
\* either way depending on the build's code path.
RECURSIVE SumOver(_, _)
SumOver(m, cells) ==
    IF cells = {} THEN 0
    ELSE LET p == CHOOSE x \in cells : TRUE
         IN  m[p[1]][p[2]] + SumOver(m, cells \ {p})

RoundMean(total, n) ==
    LET q == total \div n
        rem == total % n
    IN  IF 2 * rem < n THEN {q}
        ELSE IF 2 * rem > n THEN {q + 1}
        ELSE {q, q + 1}

\* Source indexes along one axis that contribute to output index o.
SrcIdx(src, dst, o) == IF src = dst THEN {o} ELSE 1..src

\* The weights are equal when, along each axis, the size is unchanged, or
\* one side of the resize has size 1.
EqualWeights(src, dst) == src = dst \/ src = 1 \/ dst = 1

ResizedPixel(m, h, w, r, c) ==
    LET block == SrcIdx(Height(m), h, r) \X SrcIdx(Width(m), w, c)
        vals == {m[p[1]][p[2]] : p \in block}
        lo == CHOOSE v \in vals : \A u \in vals : v <= u
        hi == CHOOSE v \in vals : \A u \in vals : v >= u
    IN  IF EqualWeights(Height(m), h) /\ EqualWeights(Width(m), w)
        THEN RoundMean(SumOver(m, block), Cardinality(block))
        ELSE lo..hi

\* cv2.resize(frame, dim, interpolation=cv2.INTER_AREA), dim = (width, height):
\* the set of arrays the call can return.  A zero-area dim raises cv2.error
\* (the empty set here).  Equal sizes copy the source.
Resize(m, d) ==
    LET w == d[1]
        h == d[2]
        vals == {m[p[1]][p[2]] : p \in (1..Height(m)) \X (1..Width(m))}
        lo == CHOOSE v \in vals : \A u \in vals : v <= u
        hi == CHOOSE v \in vals : \A u \in vals : v >= u
    IN  IF w < 1 \/ h < 1 THEN {}
        ELSE IF Shape(m) = <<h, w>> THEN {m}
        ELSE {x \in [1..h -> [1..w -> lo..hi]] :
                  \A r \in 1..h, c \in 1..w : x[r][c] \in ResizedPixel(m, h, w, r, c)}

\* ------------------------------------------------------------ GetFreqArray
\* The accumulator cleared inside the loop: each frame's counts are added to
\* zeros instead of to the running array.
AddCountsReset(arr, fq) ==
    LET where == WhereOne(fq)
        n == Len(where)
        row(i) == where[i][1]
        col(i) == where[i][2]
        RECURSIVE Loop(_, _)
        Loop(k, a) ==
            IF k = n * n THEN [err |-> FALSE, arr |-> a]
            ELSE LET i == (k \div n) + 1
                     j == (k % n) + 1
                 IN  IF ~InBounds(a, row(i), col(j))
                     THEN [err |-> TRUE, arr |-> a]
                     ELSE Loop(k + 1, [a EXCEPT ![row(i)][col(j)] = @ + Unit])
    IN  Loop(0, Zeros(Height(arr), Width(arr)))

\* Lines 79-85: the accumulation of one frame's counts.  Returns [err, arr].
AddCounts(arr, fq) ==
    LET where == WhereOne(fq)
        n == Len(where)
        row(i) == where[i][1]
        col(i) == where[i][2]
        RECURSIVE Loop(_, _)
        Loop(k, a) ==
            IF k = n * n THEN [err |-> FALSE, arr |-> a]
            ELSE LET i == (k \div n) + 1
                     j == (k % n) + 1
                 IN  IF ~InBounds(a, row(i), col(j))
                     THEN [err |-> TRUE, arr |-> a]
                     ELSE Loop(k + 1, [a EXCEPT ![row(i)][col(j)] = @ + Unit])
    \* line 79: the len of the tuple np.where returns is 2
    IN  IF Len(<<where, where>>) > 0
        THEN Loop(0, arr)
        ELSE [err |-> FALSE, arr |-> arr]

\* Lines 97-104: the values >= 1 of freq_array, sorted.
SortList(arr) ==
    LET where == SelectSeq(Coords(arr), LAMBDA p : arr[p[1]][p[2]] >= Unit)
        freq_list == [i \in 1..Len(where) |-> arr[where[i][1]][where[i][2]]]
    IN  SortSeq(freq_list, LAMBDA a, b : a < b)

\* np.percentile(sort_list, q) for a non-empty sorted list: linear
\* interpolation at the virtual index (n - 1) * q / 100.
Percentile(sort_list, q) ==
    LET n == Len(sort_list)
        pos == (n - 1) * q
        lo == (pos \div 100) + 1
        hi == IF lo < n THEN lo + 1 ELSE n
        frac == pos % 100
    IN  sort_list[lo] + (((sort_list[hi] - sort_list[lo]) * frac) \div 100)

\* Lines 106-108 (iqr = q3 - q1; upper_lim = q3 + 1.5*iqr).
UpperLim(sort_list) ==
    LET q1 == Percentile(sort_list, 25)
        q3 == Percentile(sort_list, 75)
        iqr == q3 - q1
    IN  q3 + ((3 * iqr) \div 2)

\* freq_array >= upper_lim
IsOutlier(v, lim) == v >= lim

\* The loops stop one short: the last outlier found is not replaced.
ReplaceOutliersSkipLast(arr, lim) ==
    LET where == SelectSeq(Coords(arr), LAMBDA p : arr[p[1]][p[2]] >= lim)
        outlier_row == {where[i][1] : i \in 1..(Len(where) - 1)}
        outlier_col == {where[i][2] : i \in 1..(Len(where) - 1)}
    IN  [r \in 1..Height(arr) |-> [c \in 1..Width(arr) |->
            IF r \in outlier_row /\ c \in outlier_col THEN lim ELSE arr[r][c]]]

\* Lines 110-115: every (outlier_row[i], outlier_col[j]) is set to upper_lim.
ReplaceOutliers(arr, lim) ==
    LET where == SelectSeq(Coords(arr), LAMBDA p : IsOutlier(arr[p[1]][p[2]], lim))
        outlier_row == {where[i][1] : i \in 1..Len(where)}
        outlier_col == {where[i][2] : i \in 1..Len(where)}
    IN  [r \in 1..Height(arr) |-> [c \in 1..Width(arr) |->
            IF r \in outlier_row /\ c \in outlier_col THEN lim ELSE arr[r][c]]]

\* Lines 88-117: the outcomes of the outlier branch on the accumulated array.
\* np.percentile of an empty list depends on the numpy release: it raises
\* IndexError, or returns nan; with nan every comparison freq_array >= nan is
\* False and nothing is replaced.
TestOutliers(arr) ==
    LET sort_list == SortList(arr)
    IN  IF Len(sort_list) = 0
        THEN {[err |-> TRUE, lim |-> <<>>, arr |-> arr],
              [err |-> FALSE, lim |-> <<>>, arr |-> arr]}
        ELSE {[err |-> FALSE, lim |-> <<UpperLim(sort_list)>>,
               arr |-> ReplaceOutliers(arr, UpperLim(sort_list))]}

\* ------------------------------------------------------------ inputs
FramesOf(shape) == [1..shape[1] -> [1..shape[2] -> Pixels]]
Frames == UNION {FramesOf(shape) : shape \in Shapes}
Stacks == UNION {[1..n -> Frames] : n \in 0..MaxFrames}
ScalePercents == {100}

\* Single frames of more shapes and pixel values, for GetFreqCounts alone.
FramePixels == {0, 1, 2}
FrameThresholds == {0, 1, 2, 3}
FrameShapes == {<<1, 1>>, <<1, 2>>, <<2, 1>>, <<2, 2>>,
                <<1, 3>>, <<3, 1>>, <<2, 3>>, <<3, 2>>}
SingleFrames == UNION {[1..shape[1] -> [1..shape[2] -> FramePixels]] : shape \in FrameShapes}

Init ==
    /\ img \in Stacks
    /\ threshold \in Thresholds
    /\ scale_percent \in ScalePercents
    /\ outliers \in BOOLEAN
    /\ pc = "start"
    /\ dim = <<>>
    /\ frame = 0
    /\ frame_resized = <<>>
    /\ freq = <<>>
    /\ freq_array = <<>>
    /\ upper_lim = <<>>
    /\ status = "running"
    /\ traceback = "none"

InitFrame ==
    /\ img \in [1..1 -> SingleFrames]
    /\ threshold \in FrameThresholds
    /\ scale_percent \in ScalePercents
    /\ outliers \in BOOLEAN
    /\ pc = "start"
    /\ dim = <<>>
    /\ frame = 0
    /\ frame_resized = <<>>
    /\ freq = <<>>
    /\ freq_array = <<>>
    /\ upper_lim = <<>>
    /\ status = "running"
    /\ traceback = "none"

\* Where control goes once k frames of the stack have been processed
\* (the for at line 74, then the if at line 88).
AfterFrame(k) ==
    IF k < Len(img) THEN "loop"
    ELSE IF outliers THEN "outliers" ELSE "return"

Raise(where) ==
    /\ status' = "IndexError"
    /\ traceback' = where
    /\ pc' = "done"

\* An empty stack taken as a stack of empty frames: nothing is raised.
StartEmptyOk ==
    /\ pc = "start"
    /\ IF Len(img) = 0
       THEN /\ dim' = <<0, 0>>
            /\ freq_array' = <<>>
       ELSE /\ dim' = <<ScaleDim(Width(img[1]), scale_percent),
                        ScaleDim(Height(img[1]), scale_percent)>>
            /\ \E img_resized \in Resize(img[1], dim') :
                   freq_array' = Zeros(Height(img_resized), Width(img_resized))
    /\ pc' = AfterFrame(0)
    /\ UNCHANGED <<status, traceback>>
    /\ UNCHANGED <<img, threshold, scale_percent, outliers, frame,
                   frame_resized, freq, upper_lim>>

\* Lines 65-72: img[0] of an empty stack raises IndexError; otherwise dim is
\* taken from the first frame and freq_array is zeros of the resized shape.
Start ==
    /\ pc = "start"
    /\ IF Len(img) = 0
       THEN /\ Raise("img[0]")
            /\ UNCHANGED <<dim, freq_array>>
       ELSE /\ dim' = <<ScaleDim(Width(img[1]), scale_percent),
                        ScaleDim(Height(img[1]), scale_percent)>>
            /\ \E img_resized \in Resize(img[1], dim') :
                   freq_array' = Zeros(Height(img_resized), Width(img_resized))
            /\ pc' = AfterFrame(0)
            /\ UNCHANGED <<status, traceback>>
    /\ UNCHANGED <<img, threshold, scale_percent, outliers, frame,
                   frame_resized, freq, upper_lim>>

\* Lines 74-87: one iteration of the loop over the frames.
ProcessFrame ==
    /\ pc = "loop"
    /\ \E fr \in Resize(img[frame + 1], dim) :
          LET counts == GetFreqCounts(fr, threshold)
              added == AddCounts(freq_array, counts.grid)
          IN  /\ frame_resized' = fr
              /\ freq' = counts.grid
              /\ IF counts.err
                 THEN /\ Raise("GetFreqCounts")
                      /\ UNCHANGED <<frame, freq_array>>
                 ELSE IF added.err
                 THEN /\ Raise("freq_array")
                      /\ freq_array' = added.arr
                      /\ UNCHANGED frame
                 ELSE /\ freq_array' = added.arr
                      /\ frame' = frame + 1
                      /\ pc' = AfterFrame(frame + 1)
                      /\ UNCHANGED <<status, traceback>>
    /\ UNCHANGED <<img, threshold, scale_percent, outliers, dim, upper_lim>>

\* Lines 88-117: the outlier branch.
Outliers ==
    /\ pc = "outliers"
    /\ \E out \in TestOutliers(freq_array) :
          /\ upper_lim' = out.lim
          /\ freq_array' = out.arr
          /\ IF out.err
             THEN Raise("np.percentile")
             ELSE /\ pc' = "return"
                  /\ UNCHANGED <<status, traceback>>
    /\ UNCHANGED <<img, threshold, scale_percent, outliers, dim, frame,
                   frame_resized, freq>>

\* Line 120.
Return ==
    /\ pc = "return"
    /\ status' = "returned"
    /\ pc' = "done"
    /\ UNCHANGED <<img, threshold, scale_percent, outliers, dim, frame,
                   frame_resized, freq, freq_array, upper_lim, traceback>>

Next == Start \/ ProcessFrame \/ Outliers \/ Return

Spec == Init /\ [][Next]_vars

\* GetFreqArray on a stack of one frame drawn from SingleFrames
SpecFrame == InitFrame /\ [][Next]_vars

\* ----------------------------------------- GetFreqArray as a whole function
\* The outcomes of the loop at lines 74-87 from frame k + 1 on.
RECURSIVE LoopOutcomes(_, _, _, _, _)
LoopOutcomes(stack, k, d, thr, arr) ==
    IF k = Len(stack) THEN {[err |-> FALSE, arr |-> arr]}
    ELSE UNION {
            LET counts == GetFreqCounts(fr, thr)
                added == AddCounts(arr, counts.grid)
            IN  IF counts.err \/ added.err
                THEN {[err |-> TRUE, arr |-> <<>>]}
                ELSE LoopOutcomes(stack, k + 1, d, thr, added.arr)
            : fr \in Resize(stack[k + 1], d)}

\* The outcomes of GetFreqArray on a decoded stack: the exception raised, or
\* the array returned.
GetFreqArray(stack, thr, scale, outl) ==
    LET failed == [status |-> "IndexError", array |-> <<>>]
        d == <<ScaleDim(Width(stack[1]), scale), ScaleDim(Height(stack[1]), scale)>>
    IN  IF Len(stack) = 0 THEN {failed}
        ELSE UNION {
                IF l.err THEN {failed}
                ELSE IF outl
                THEN {IF o.err THEN failed ELSE [status |-> "returned", array |-> o.arr]
                        : o \in TestOutliers(l.arr)}
                ELSE {[status |-> "returned", array |-> l.arr]}
                : l \in LoopOutcomes(stack, 0, d, thr, Zeros(d[2], d[1]))}

\* The outcome the run has reached.
Outcome ==
    IF status = "returned"
    THEN [status |-> status, array |-> freq_array]
    ELSE [status |-> status, array |-> <<>>]

\* ================================================================== claims
Cells(m) == (1..Height(m)) \X (1..Width(m))

\* GetFreqCounts has been called on frame_resized in the last loop iteration
Called == frame_resized # <<>>
\* ... and it returned freq
Counted == Called /\ freq # <<>>

SameShapes(stack) == \A f \in 1..Len(stack) : Shape(stack[f]) = Shape(stack[1])

Permute(stack, p) == [i \in 1..Len(stack) |-> stack[p[i]]]

\* The limit Q3 + 1.5*(Q3 - Q1) over the cells >= 1 of an array (fixed point)
IqrLimit(arr) == UpperLim(SortList(arr))

\* The outlier branch has just run on the array of the unprimed state
Clipped == pc = "outliers" /\ pc' = "return" /\ upper_lim' # <<>>

\* C1: GetFreqCounts returns a grid whose cell (r,c) is 1 exactly when
\* frame[r,c] >= threshold and 0 otherwise; no cell holds any other value.
C1_CellsAreIndicators ==
    Counted =>
        /\ \A p \in Cells(frame_resized) \cap Cells(freq) :
              freq[p[1]][p[2]] = (IF frame_resized[p[1]][p[2]] >= threshold THEN 1 ELSE 0)
        /\ \A p \in Cells(freq) : freq[p[1]][p[2]] \in {0, 1}

\* C2: for a frame of height H and width W, GetFreqCounts raises no index
\* error and returns a grid of H rows and W columns.
C2_SameDimensions ==
    Called =>
        /\ traceback # "GetFreqCounts"
        /\ freq # <<>>
        /\ Shape(freq) = Shape(frame_resized)

\* C3: with outliers=False and scale 100, each cell of the returned array is
\* the number of frames whose pixel at that cell is >= threshold.
C3_CountsFrames ==
    (pc = "done" /\ status = "returned" /\ ~outliers /\ scale_percent = 100
        /\ SameShapes(img)) =>
        /\ Shape(freq_array) = Shape(img[1])
        /\ \A p \in Cells(img[1]) :
              freq_array[p[1]][p[2]] =
                  Unit * Cardinality({f \in 1..Len(img) : img[f][p[1]][p[2]] >= threshold})

\* C4: for N >= 1 identical frames with exactly one pixel at or above the
\* threshold, GetFreqArray with outliers=False returns an array that holds N
\* at that pixel and 0 everywhere else.
C4_SinglePixelStack ==
    (pc = "done" /\ ~outliers /\ Len(img) >= 1
        /\ (\A f \in 1..Len(img) : img[f] = img[1])
        /\ Cardinality({p \in Cells(img[1]) : img[1][p[1]][p[2]] >= threshold}) = 1) =>
        /\ status = "returned"
        /\ Shape(freq_array) = Shape(img[1])
        /\ \A p \in Cells(img[1]) :
              freq_array[p[1]][p[2]] =
                  (IF img[1][p[1]][p[2]] >= threshold THEN Len(img) * Unit ELSE 0)

Square(stack) == \A f \in 1..Len(stack) : Height(stack[f]) = Width(stack[f])

\* C5 as stated: the outcome of GetFreqArray is the same for every permutation
\* of the frames of the stack.  (Stated over the stacks of square frames, on
\* which GetFreqCounts raises no index error.)
C5_OrderIndependent ==
    (pc = "done" /\ Square(img)) =>
        \A p \in Permutations(1..Len(img)) :
            Outcome \in GetFreqArray(Permute(img, p), threshold, scale_percent, outliers)

\* C5 as amended: for a stack whose frames all have the same dimensions, the
\* outcome of GetFreqArray is the same for every permutation of the frames.
C5_OrderIndependentSameShapes ==
    (pc = "done" /\ SameShapes(img)) =>
        \A p \in Permutations(1..Len(img)) :
            Outcome \in GetFreqArray(Permute(img, p), threshold, scale_percent, outliers)

C5_Witness ==
    /\ pc = "done" /\ status = "returned" /\ Len(img) >= 2 /\ SameShapes(img)
    /\ img[1] # img[2]
    /\ \E p \in Cells(freq_array) : freq_array[p[1]][p[2]] >= 2 * Unit
    /\ \E p \in Cells(freq_array) : freq_array[p[1]][p[2]] = Unit

\* C6: with outliers=True and at least one accumulated cell >= 1, no cell of
\* the array after the outlier branch exceeds Q3 + 1.5*(Q3 - Q1) of the
\* pre-clip cells >= 1.
C6_NoCellAboveLimit ==
    [][Clipped =>
          \A p \in Cells(freq_array') :
              freq_array'[p[1]][p[2]] <= IqrLimit(freq_array)]_vars

C6_Witness ==
    /\ pc = "done" /\ status = "returned" /\ outliers /\ upper_lim # <<>>
    /\ upper_lim[1] % Unit # 0
    /\ \E p \in Cells(freq_array) : freq_array[p[1]][p[2]] = upper_lim[1]
    /\ \E p \in Cells(freq_array) : freq_array[p[1]][p[2]] = Unit

C8_AllZeroAboveMax ==
    (Called /\ \A p \in Cells(frame_resized) : threshold > frame_resized[p[1]][p[2]]) =>
        /\ freq # <<>>
        /\ \A p \in Cells(freq) : freq[p[1]][p[2]] = 0

C8_Witness ==
    /\ Counted
    /\ \A p \in Cells(frame_resized) : threshold > frame_resized[p[1]][p[2]]
    /\ \E p \in Cells(frame_resized) : frame_resized[p[1]][p[2]] > 0
    /\ Height(frame_resized) # Width(frame_resized)

\* C9: clipping sets each cell >= upperLimit to upperLimit and leaves every
\* cell < upperLimit (every zero cell included) at its pre-clip value.
C9_OnlyOutliersChange ==
    [][Clipped =>
          \A p \in Cells(freq_array) :
              freq_array'[p[1]][p[2]] =
                  (IF freq_array[p[1]][p[2]] >= IqrLimit(freq_array)
                   THEN IqrLimit(freq_array)
                   ELSE freq_array[p[1]][p[2]])]_vars

\* C10: after k frames have been processed every cell of freq_array is an
\* integer between 0 and k.
C10_CellsAtMostFrames ==
    (pc \in {"loop", "outliers"} \/ (pc = "return" /\ ~outliers)) =>
        \A p \in Cells(freq_array) :
            \E n \in 0..frame : freq_array[p[1]][p[2]] = n * Unit

====
